---- MODULE Spec2Model ----
(***************************************************************************)
(* SimTrace: run evaluation and diagnosis.                                 *)
(*                                                                         *)
(*   frontend-react/src/App.jsx   scenario policies, scoreRun,             *)
(*                                buildRunSummary, the deltas of a         *)
(*                                comparison, run loading, diagnoseLLM     *)
(*   backend (server)             the /api/diagnose handler                *)
(*                                                                         *)
(* JavaScript values are encoded as follows.  A value that may be          *)
(* null/undefined is a sequence of length 0 (absent) or 1 (present).  A    *)
(* raw number field is <<n>> when it converts to a finite number and <<>>  *)
(* when Number(..) of it is NaN.  Strings that the code inspects character *)
(* by character are sequences of one-character strings.                    *)
(***************************************************************************)
EXTENDS Integers, Sequences, FiniteSets, TLC

VARIABLES
    run,          \* App state `run`: <<>> (null) or <<Run>>
    compareRun,   \* App state `compareRun`: <<>> (null) or <<Run>>
    scenarioKey,  \* App state `scenarioKey`
    out,          \* the values of one evaluation pass: <<>> or <<record>>
    reqs,         \* /api/diagnose: the requests of the handler, by request number
    modelReplies, \* what the model service may answer a generateContent call with
    index,        \* App state `index`: <<>> (null) or <<list of {id}>>
    runId,        \* App state `runId`
    compareRunId, \* App state `compareRunId`
    t,            \* App state `t`
    playing,      \* App state `playing`
    diagText,     \* App state `diagText`
    fetches,      \* run files being fetched by the two load effects
    diag,         \* the invocations of diagnoseLLM, by request number
    selects       \* number of selections made by the user

selVars == <<run, compareRun, scenarioKey>>
uiVars == <<index, runId, compareRunId, t, playing, diagText, fetches, diag, selects>>
vars == <<selVars, out, reqs, modelReplies, uiVars>>

None == <<>>
Some(x) == <<x>>

Min(a, b) == IF a <= b THEN a ELSE b

(***************************************************************************)
(* Bounds of the model.                                                    *)
(***************************************************************************)
MaxEvents == 4        \* events of a run evaluated on its own
MaxPairEvents == 1    \* events of the generated runs of a comparison
MaxLongEvents == 27   \* events of the longest generated run
MaxReqs == 2          \* concurrent requests to /api/diagnose
MaxDiag == 2          \* clicks on Diagnose Run
MaxSelects == 2       \* selections of a run, a compare run or a scenario

(***************************************************************************)
(* Scenario policies.                                                      *)
(***************************************************************************)
SCENARIOS ==
    [ warehouse |-> [ weights    |-> [near |-> 3, collision |-> 8, stuck |-> 6, replan |-> 1],
                      thresholds |-> [pass |-> 6, warn |-> 14] ],
      delivery  |-> [ weights    |-> [near |-> 2, collision |-> 6, stuck |-> 4, replan |-> 1],
                      thresholds |-> [pass |-> 8, warn |-> 18] ],
      sar       |-> [ weights    |-> [near |-> 1, collision |-> 3, stuck |-> 7, replan |-> 1],
                      thresholds |-> [pass |-> 10, warn |-> 22] ] ]

\* SCENARIOS[scenarioKey] || SCENARIOS.warehouse
Policy(key) == IF key \in DOMAIN SCENARIOS THEN SCENARIOS[key] ELSE SCENARIOS.warehouse

(***************************************************************************)
(* Run parsing helpers.                                                    *)
(***************************************************************************)
\* Number.isFinite(Number(raw))
IsFinite(num) == num # None

\* x ?? d, for an optional x
OrElse(x, d) == IF x = None THEN d ELSE x[1]

runTimeMax(r) ==
    IF r = None THEN 0
    ELSE LET frames == r[1].frames
         IN  IF Len(frames) = 0 THEN 0
             ELSE LET lastT == frames[Len(frames)].t
                  IN  IF IsFinite(lastT) THEN lastT[1] ELSE 0

\* CountStep with substring matching (type.includes(..)) in place of ===
CountStepIncludes(c, e) ==
    [ near      |-> c.near      + (IF e.type = "near_collision" THEN 1 ELSE 0),
      collision |-> c.collision + (IF e.type \in {"collision", "near_collision"} THEN 1 ELSE 0),
      stuck     |-> c.stuck     + (IF e.type = "stuck" THEN 1 ELSE 0),
      replan    |-> c.replan    + (IF e.type = "replan" THEN 1 ELSE 0) ]

\* the loop body of countEvents: four independent exact matches on the type
CountStep(c, e) ==
    [ near      |-> c.near      + (IF e.type = "near_collision" THEN 1 ELSE 0),
      collision |-> c.collision + (IF e.type = "collision" THEN 1 ELSE 0),
      stuck     |-> c.stuck     + (IF e.type = "stuck" THEN 1 ELSE 0),
      replan    |-> c.replan    + (IF e.type = "replan" THEN 1 ELSE 0) ]

RECURSIVE CountLoop(_, _, _)
CountLoop(events, i, c) ==
    IF i > Len(events) THEN c
    ELSE CountLoop(events, i + 1, CountStep(c, events[i]))

countEvents(r) ==
    CountLoop(r.events, 1, [near |-> 0, collision |-> 0, stuck |-> 0, replan |-> 0])

\* Verdict with exclusive comparisons
VerdictExclusive(score, thresholds) ==
    IF score < thresholds.pass THEN "PASS"
    ELSE IF score < thresholds.warn THEN "WARN" ELSE "FAIL"

Verdict(score, thresholds) ==
    IF score <= thresholds.pass THEN "PASS"
    ELSE IF score <= thresholds.warn THEN "WARN" ELSE "FAIL"

scoreRun(r, key) ==
    LET sc == Policy(key)
        c  == countEvents(r)
        w  == sc.weights
        score == c.near * w.near + c.collision * w.collision
                 + c.stuck * w.stuck + c.replan * w.replan
    IN  [score |-> score, status |-> Verdict(score, sc.thresholds), counts |-> c]

(***************************************************************************)
(* buildRunSummary.                                                        *)
(***************************************************************************)
\* events.filter((e) => e.type === ty).length
FilterCount(events, ty) == Cardinality({i \in 1..Len(events) : events[i].type = ty})

\* .map(..).filter((e) => Number.isFinite(e.t) && e.type)
RECURSIVE ValidEvents(_)
ValidEvents(events) ==
    IF events = <<>> THEN <<>>
    ELSE LET e == Head(events)
         IN  IF IsFinite(e.t) /\ e.type # ""
             THEN <<[t |-> e.t[1], type |-> e.type]>> \o ValidEvents(Tail(events))
             ELSE ValidEvents(Tail(events))

\* .sort((a, b) => a.t - b.t): a stable sort, as an insertion sort
RECURSIVE InsertByT(_, _)
InsertByT(sorted, e) ==
    IF sorted = <<>> THEN <<e>>
    ELSE IF Head(sorted).t <= e.t THEN <<Head(sorted)>> \o InsertByT(Tail(sorted), e)
    ELSE <<e>> \o sorted

RECURSIVE SortByT(_, _)
SortByT(events, acc) ==
    IF events = <<>> THEN acc ELSE SortByT(Tail(events), InsertByT(acc, Head(events)))

EvidenceLimit == 24
EvidenceHalf == 12

\* HeadTail keeping the earliest entries only (slice(0, 24))
HeadTailFirst(evidence) == SubSeq(evidence, 1, Min(Len(evidence), EvidenceLimit))

HeadTail(evidence) ==
    IF Len(evidence) <= EvidenceLimit THEN evidence
    ELSE SubSeq(evidence, 1, EvidenceHalf)
         \o SubSeq(evidence, Len(evidence) - EvidenceHalf + 1, Len(evidence))

buildRunSummary(r) ==
    LET frames == r.frames
        events == r.events
        stats  == r.stats
        \* stats.duration_s ?? (frames.length ? Number(last.t) : 0)
        rawDuration ==
            IF stats.duration_s # None THEN stats.duration_s
            ELSE IF Len(frames) > 0 THEN frames[Len(frames)].t ELSE Some(0)
    IN  [ \* Number(duration_s) || 0
          duration_s  |-> IF IsFinite(rawDuration) THEN rawDuration[1] ELSE 0,
          distance_m  |-> stats.distance_m,
          counts      |->
              [ near_collision |-> OrElse(stats.near_collision_count,
                                          FilterCount(events, "near_collision")),
                collision      |-> OrElse(stats.collision_count,
                                          FilterCount(events, "collision")),
                stuck          |-> OrElse(stats.stuck_count, FilterCount(events, "stuck")),
                replan         |-> OrElse(stats.replan_count, FilterCount(events, "replan")) ],
          events_evidence |-> HeadTail(SortByT(ValidEvents(events), <<>>)),
          meta |-> [frame_count |-> Len(frames), event_count |-> Len(events)] ]

(***************************************************************************)
(* Scenario evaluation and deltas (the useMemo values of App).  Their      *)
(* dependency lists name every state they read, so each is a function of   *)
(* the current state.                                                      *)
(***************************************************************************)
primary == IF run = None THEN None ELSE Some(scoreRun(run[1], scenarioKey))

\* compare scored under the default policy whatever the scenario selected
CompareDefaultPolicy ==
    IF compareRun = None THEN None ELSE Some(scoreRun(compareRun[1], "warehouse"))

compare == IF compareRun = None THEN None ELSE Some(scoreRun(compareRun[1], scenarioKey))

\* DeltasOf with an absent distance statistic taken as 0
DeltasOfDistanceZero(p, c, r, cr) ==
    LET a == p.counts
        b == c.counts
    IN  [ score     |-> c.score - p.score,
          near      |-> b.near - a.near,
          stuck     |-> b.stuck - a.stuck,
          collision |-> b.collision - a.collision,
          duration  |-> runTimeMax(cr) - runTimeMax(r),
          distance  |-> Some(OrElse(cr[1].stats.distance_m, 0) - OrElse(r[1].stats.distance_m, 0)),
          better    |-> c.score < p.score,
          equal     |-> c.score = p.score ]

\* DeltasOf with better computed by <= in place of <
DeltasOfBetterOrEqual(p, c, r, cr) ==
    LET a == p.counts
        b == c.counts
    IN  [ score     |-> c.score - p.score,
          near      |-> b.near - a.near,
          stuck     |-> b.stuck - a.stuck,
          collision |-> b.collision - a.collision,
          duration  |-> runTimeMax(cr) - runTimeMax(r),
          distance  |-> IF cr[1].stats.distance_m # None /\ r[1].stats.distance_m # None
                        THEN Some(cr[1].stats.distance_m[1] - r[1].stats.distance_m[1])
                        ELSE None,
          better    |-> c.score <= p.score,
          equal     |-> c.score = p.score ]

\* DeltasOf with the operands of every difference swapped (primary - other)
DeltasOfReversed(p, c, r, cr) ==
    LET a == p.counts
        b == c.counts
    IN  [ score     |-> p.score - c.score,
          near      |-> a.near - b.near,
          stuck     |-> a.stuck - b.stuck,
          collision |-> a.collision - b.collision,
          duration  |-> runTimeMax(r) - runTimeMax(cr),
          distance  |-> IF cr[1].stats.distance_m # None /\ r[1].stats.distance_m # None
                        THEN Some(r[1].stats.distance_m[1] - cr[1].stats.distance_m[1])
                        ELSE None,
          better    |-> c.score < p.score,
          equal     |-> c.score = p.score ]

DeltasOf(p, c, r, cr) ==
    LET a == p.counts
        b == c.counts
        durA == runTimeMax(r)
        durB == runTimeMax(cr)
    IN  [ score     |-> c.score - p.score,
          near      |-> b.near - a.near,
          stuck     |-> b.stuck - a.stuck,
          collision |-> b.collision - a.collision,
          duration  |-> durB - durA,
          distance  |-> IF cr[1].stats.distance_m # None /\ r[1].stats.distance_m # None
                        THEN Some(cr[1].stats.distance_m[1] - r[1].stats.distance_m[1])
                        ELSE None,
          better    |-> c.score < p.score,
          equal     |-> c.score = p.score ]

deltas ==
    IF primary = None \/ compare = None THEN None
    ELSE Some(DeltasOf(primary[1], compare[1], run, compareRun))

(***************************************************************************)
(* JSON texts and values of the /api/diagnose handler.                     *)
(*                                                                         *)
(* A text is a sequence of characters.  JSONParse reads the part of JSON   *)
(* the replies below are written in: null, true, false, unsigned integers, *)
(* strings without escapes, arrays and objects, with spaces as white       *)
(* space.  Values are tagged records.                                      *)
(***************************************************************************)
JNull == [k |-> "null"]
JBool(b) == [k |-> "bool", v |-> b]
JNum(digits) == [k |-> "num", v |-> digits]
JStr(chars) == [k |-> "str", v |-> chars]
JArr(items) == [k |-> "arr", items |-> items]
JObj(members) == [k |-> "obj", members |-> members]

Digits == {"0", "1", "2", "3", "4", "5", "6", "7", "8", "9"}

ParseFail == [ok |-> FALSE]
Parsed(v, next) == [ok |-> TRUE, val |-> v, next |-> next]

\* the character at position i, "" past the end
At(text, i) == IF i >= 1 /\ i <= Len(text) THEN text[i] ELSE ""

MinOf(S) == CHOOSE j \in S : \A m \in S : j <= m

\* the first position >= i that holds no space (Len + 1 when there is none)
SkipWs(text, i) ==
    IF At(text, i) # " " THEN i
    ELSE MinOf({j \in i..(Len(text) + 1) : At(text, j) # " "})

IsLiteral(text, i, lit) ==
    /\ i + Len(lit) - 1 <= Len(text)
    /\ SubSeq(text, i, i + Len(lit) - 1) = lit

\* obj[key] = val on the member list of an object: an existing key keeps
\* its place, a new key goes last
SetMember(members, key, val) ==
    IF \E i \in DOMAIN members : members[i].key = key
    THEN [i \in DOMAIN members |->
            IF members[i].key = key THEN [key |-> key, val |-> val] ELSE members[i]]
    ELSE Append(members, [key |-> key, val |-> val])

\* obj[key]: <<>> when undefined
GetMember(members, key) ==
    IF \E i \in DOMAIN members : members[i].key = key
    THEN Some(members[CHOOSE i \in DOMAIN members : members[i].key = key].val)
    ELSE None

ParseString(text, i) ==
    IF At(text, i) # "\"" THEN ParseFail
    ELSE LET stops == {j \in (i + 1)..Len(text) : text[j] \in {"\"", "\\"}}
         IN  IF stops = {} THEN ParseFail
             ELSE LET j == MinOf(stops)
                  IN  IF text[j] = "\\" THEN ParseFail
                      ELSE Parsed(JStr(SubSeq(text, i + 1, j - 1)), j + 1)

ParseNumber(text, i) ==
    LET end == MinOf({j \in i..(Len(text) + 1) : At(text, j) \notin Digits})
    IN  IF end = i \/ (text[i] = "0" /\ end > i + 1) THEN ParseFail
        ELSE Parsed(JNum(SubSeq(text, i, end - 1)), end)

RECURSIVE ParseValue(_, _)
RECURSIVE ParseMembers(_, _, _)
RECURSIVE ParseElements(_, _, _)

ParseValue(text, i) ==
    LET c == At(text, i)
    IN  IF c = "{" THEN
            LET j == SkipWs(text, i + 1)
            IN  IF At(text, j) = "}" THEN Parsed(JObj(<<>>), j + 1)
                ELSE ParseMembers(text, j, <<>>)
        ELSE IF c = "[" THEN
            LET j == SkipWs(text, i + 1)
            IN  IF At(text, j) = "]" THEN Parsed(JArr(<<>>), j + 1)
                ELSE ParseElements(text, j, <<>>)
        ELSE IF c = "\"" THEN ParseString(text, i)
        ELSE IF c \in Digits THEN ParseNumber(text, i)
        ELSE IF IsLiteral(text, i, <<"n", "u", "l", "l">>) THEN Parsed(JNull, i + 4)
        ELSE IF IsLiteral(text, i, <<"t", "r", "u", "e">>) THEN Parsed(JBool(TRUE), i + 4)
        ELSE IF IsLiteral(text, i, <<"f", "a", "l", "s", "e">>) THEN Parsed(JBool(FALSE), i + 5)
        ELSE ParseFail

\* members of an object from the key at position i on
ParseMembers(text, i, acc) ==
    LET key == ParseString(text, i)
    IN  IF ~key.ok THEN ParseFail
        ELSE LET colon == SkipWs(text, key.next)
             IN  IF At(text, colon) # ":" THEN ParseFail
                 ELSE LET v == ParseValue(text, SkipWs(text, colon + 1))
                      IN  IF ~v.ok THEN ParseFail
                          ELSE LET e    == SkipWs(text, v.next)
                                   acc2 == SetMember(acc, key.val.v, v.val)
                               IN  IF At(text, e) = ","
                                   THEN ParseMembers(text, SkipWs(text, e + 1), acc2)
                                   ELSE IF At(text, e) = "}"
                                   THEN Parsed(JObj(acc2), e + 1)
                                   ELSE ParseFail

\* elements of an array from the value at position i on
ParseElements(text, i, acc) ==
    LET v == ParseValue(text, i)
    IN  IF ~v.ok THEN ParseFail
        ELSE LET e == SkipWs(text, v.next)
             IN  IF At(text, e) = "," THEN ParseElements(text, SkipWs(text, e + 1), Append(acc, v.val))
                 ELSE IF At(text, e) = "]" THEN Parsed(JArr(Append(acc, v.val)), e + 1)
                 ELSE ParseFail

\* JSON.parse(text): [ok |-> FALSE] when it throws
JSONParse(text) ==
    LET v == ParseValue(text, SkipWs(text, 1))
    IN  IF ~v.ok THEN ParseFail
        ELSE IF SkipWs(text, v.next) = Len(text) + 1 THEN [ok |-> TRUE, val |-> v.val]
        ELSE ParseFail


(***************************************************************************)
(* Replies of the model service.                                           *)
(***************************************************************************)
RawLimit == 2000

KCompareInsights == <<"c", "o", "m", "p", "a", "r", "e", "_", "i", "n", "s", "i", "g", "h", "t", "s">>
KVerdict == <<"v", "e", "r", "d", "i", "c", "t">>
KOperatorSummary == <<"o", "p", "e", "r", "a", "t", "o", "r", "_", "s", "u", "m", "m", "a", "r", "y">>

Quote(chars) == <<"\"">> \o chars \o <<"\"">>
Member(key, valueText) == Quote(key) \o <<":">> \o valueText
Pad(n, ch) == [i \in 1..n |-> ch]

VerdictMember == Member(KVerdict, Quote(<<"F", "A", "I", "L">>))

\* {"verdict":"FAIL","compare_insights":"ok"}
TextFull ==
    <<"{">> \o VerdictMember \o <<",">> \o Member(KCompareInsights, Quote(<<"o", "k">>)) \o <<"}">>
\* {"verdict":"FAIL"}
TextNoInsights == <<"{">> \o VerdictMember \o <<"}">>
\* {"verdict":"FAIL","compare_insights":5}
TextNumberInsights ==
    <<"{">> \o VerdictMember \o <<",">> \o Member(KCompareInsights, <<"5">>) \o <<"}">>
\*  { "compare_insights" : null }  with white space around every token
TextNullInsights ==
    <<" ", "{", " ">> \o Quote(KCompareInsights) \o <<" ", ":", " ", "n", "u", "l", "l", " ", "}", " ">>
\* {"verdict":"FAIL","compare_insights":"ok"}x
TextTrailingJunk == TextFull \o <<"x">>
\* {"verdict":"FAIL"
TextUnclosed == <<"{">> \o VerdictMember
\* {"operator_summary":"aaaa...    cut off inside a string, longer than RawLimit
TextCutOff == <<"{">> \o Quote(KOperatorSummary) \o <<":", "\"">> \o Pad(RawLimit, "a")
\* {"operator_summary":"aaaa...a"}  valid and longer than RawLimit
TextLongValid ==
    <<"{">> \o Member(KOperatorSummary, Quote(Pad(RawLimit, "a"))) \o <<"}">>

ReplyTexts ==
    { <<>>,                                  \* the empty text
      <<"n", "u", "l", "l">>,                \* null
      <<"7">>,                               \* a number
      Quote(<<"o", "k">>),                   \* a string
      <<"[", "]">>,                          \* an array
      <<"S", "o", "r", "r", "y">>,           \* prose
      TextFull, TextNoInsights, TextNumberInsights, TextNullInsights,
      TextTrailingJunk, TextUnclosed, TextCutOff, TextLongValid,
      Pad(RawLimit, "x"), Pad(RawLimit + 1, "x") }


(***************************************************************************)
(* Inputs of the evaluation engine.                                        *)
(***************************************************************************)
SeqsUpTo(S, n) == UNION {[1..k -> S] : k \in 0..n}

Ev(time, type) == [t |-> time, type |-> type]

\* the recognised vocabulary, an unrecognised type sharing a time with a
\* recognised one, an event whose t is not a number, an event without type
EventUniverse ==
    { Ev(Some(1), "near_collision"), Ev(Some(2), "collision"), Ev(Some(3), "stuck"),
      Ev(Some(4), "replan"), Ev(Some(2), "goal_reached"),
      Ev(None, "collision"), Ev(Some(5), "") }

PairEventUniverse ==
    { Ev(Some(1), "near_collision"), Ev(Some(2), "collision"), Ev(Some(3), "stuck"),
      Ev(Some(4), "replan"), Ev(Some(2), "goal_reached") }

Stats(dur, dist, near, col, stuck, replan) ==
    [ duration_s |-> dur, distance_m |-> dist, near_collision_count |-> near,
      collision_count |-> col, stuck_count |-> stuck, replan_count |-> replan ]

NoStats == Stats(None, None, None, None, None, None)

Frames(ts) == [i \in 1..Len(ts) |-> [t |-> ts[i]]]

\* frames and stats of the generated runs of a comparison
Profiles ==
    { [frames |-> Frames(<<>>), stats |-> NoStats],
      [frames |-> Frames(<<Some(0), Some(3)>>),
       stats  |-> Stats(Some(4), Some(5), None, None, None, None)],
      [frames |-> Frames(<<Some(0), Some(7)>>),
       stats  |-> Stats(None, Some(9), Some(2), None, None, None)],
      [frames |-> Frames(<<Some(0), None>>),
       stats  |-> Stats(Some(6), None, Some(0), Some(1), Some(0), Some(0))],
      [frames |-> Frames(<<Some(0), Some(2)>>),
       stats  |-> Stats(None, Some(0), None, None, None, None)] }

\* the two runs of the worked example: A {near 2, stuck 1}, B {collision 1}
RunA ==
    [ frames |-> Frames(<<Some(0), Some(5)>>),
      events |-> <<Ev(Some(1), "near_collision"), Ev(Some(2), "near_collision"),
                   Ev(Some(4), "stuck")>>,
      stats  |-> NoStats ]

RunB ==
    [ frames |-> Frames(<<Some(0), Some(6)>>),
      events |-> <<Ev(Some(3), "collision")>>,
      stats  |-> Stats(None, Some(12), None, None, None, None) ]

SingleRuns ==
    { [frames |-> Frames(<<Some(0), Some(5)>>), events |-> es, stats |-> NoStats] :
        es \in SeqsUpTo(EventUniverse, MaxEvents) }

PairRuns ==
    {RunA, RunB} \cup
    { [frames |-> p.frames, events |-> es, stats |-> p.stats] :
        es \in SeqsUpTo(PairEventUniverse, MaxPairEvents), p \in Profiles }

\* long runs, around the evidence limit: event i of n has a type taken in
\* turn from TypeCycle and a time given by the pattern.  "ties" repeats
\* three times (and whole events), "holes" is descending with a first event
\* whose t is not a number and a last event without type.
TypeCycle == <<"near_collision", "collision", "stuck", "replan", "goal_reached">>

Patterns == {"ascending", "descending", "ties", "holes"}

LongEvent(pattern, i, n) ==
    LET type == TypeCycle[(i % Len(TypeCycle)) + 1]
    IN  IF pattern = "ascending" THEN Ev(Some(i), type)
        ELSE IF pattern = "descending" THEN Ev(Some(n - i), type)
        ELSE IF pattern = "ties" THEN Ev(Some(i % 3), type)
        ELSE IF i = 1 THEN Ev(None, type)
        ELSE IF i = n THEN Ev(Some(0), "")
        ELSE Ev(Some(n - i), type)

LongRuns ==
    { [ frames |-> Frames(<<Some(0), Some(n)>>),
        events |-> [i \in 1..n |-> LongEvent(pattern, i, n)],
        stats  |-> NoStats ] :
        n \in (EvidenceLimit - 1)..MaxLongEvents, pattern \in Patterns }

ScenarioKeys == {"warehouse", "delivery", "sar"}

(***************************************************************************)
(* The evaluation engine on its own: a run (and possibly a compare run)    *)
(* is loaded, and one pass computes the scenario evaluation, the deltas    *)
(* and the summaries sent to the diagnosis.                                *)
(***************************************************************************)
\* the App as mounted: useState initial values, nothing in flight
NoDiagText == [kind |-> "none"]

UiMounted ==
    /\ index = None
    /\ runId = "sample_run"
    /\ compareRunId = ""
    /\ t = 0
    /\ playing = FALSE
    /\ diagText = NoDiagText
    /\ fetches = {}
    /\ selects = 0

EngineInit ==
    /\ out = None
    /\ reqs = <<>>
    /\ modelReplies = {}
    /\ diag = <<>>
    /\ UiMounted
    /\ \/ /\ run \in {Some(r) : r \in SingleRuns}
          /\ compareRun = None
          /\ scenarioKey \in ScenarioKeys \cup {"lab"}
       \/ /\ run \in {Some(r) : r \in PairRuns}
          /\ compareRun \in {Some(r) : r \in PairRuns}
          /\ scenarioKey \in ScenarioKeys
       \/ /\ run \in {Some(r) : r \in LongRuns}
          /\ compareRun = None
          /\ scenarioKey = "warehouse"

Evaluate ==
    /\ out = None
    /\ run # None
    /\ out' = Some([ primary        |-> primary,
                     compare        |-> compare,
                     deltas         |-> deltas,
                     runSummary     |-> buildRunSummary(run[1]),
                     compareSummary |-> IF compareRun = None THEN None
                                        ELSE Some(buildRunSummary(compareRun[1])) ])
    /\ UNCHANGED <<selVars, reqs, modelReplies, uiVars>>

EngineNext == Evaluate

SpecEngine == EngineInit /\ [][EngineNext]_vars

(***************************************************************************)
(* The /api/diagnose handler.                                              *)
(*                                                                         *)
(* A request is [pc, body, modelCalls, reply, responses]: pc is "received" *)
(* (handler not yet run), "awaitModel" (suspended in await                 *)
(* ai.models.generateContent) or "done"; reply is what the await produced; *)
(* responses are the HTTP responses sent, in order.                        *)
(***************************************************************************)
Respond(status, body) == [status |-> status, body |-> body]

\* !scenarioKey || !runSummary
MissingInput(body) == body.scenarioKey \in {None, Some("")} \/ body.runSummary = None

\* text.slice(0, 2000), without the limit
RawExcerptWhole(text) == text

\* text.slice(0, 2000)
RawExcerpt(text) == SubSeq(text, 1, Min(RawLimit, Len(text)))

\* a thrown value: err.status, err.error.message, err.message, String(err)
Thrown(status, errorMessage, message, str) ==
    [status |-> status, errorMessage |-> errorMessage, message |-> message, str |-> str]

\* what the model client throws: an API error with a status, an API error
\* with a nested error message, a network failure, a thrown non-Error
ModelErrors ==
    { Thrown(Some(429), None, Some("quota exceeded"), "ApiError: quota exceeded"),
      Thrown(Some(503), Some("model overloaded"), Some("got status: 503"), "ApiError: got status: 503"),
      Thrown(None, None, Some("fetch failed"), "TypeError: fetch failed"),
      Thrown(None, None, None, "aborted") }

\* reading a property of null
TypeErrorNull ==
    Thrown(None, None, Some("Cannot read properties of null (reading 'compare_insights')"),
           "TypeError: Cannot read properties of null (reading 'compare_insights')")

\* assigning a property of a primitive in strict mode (an ES module)
TypeErrorPrimitive ==
    Thrown(None, None, Some("Cannot create property 'compare_insights' on a primitive"),
           "TypeError: Cannot create property 'compare_insights' on a primitive")

Truthy(optString) == optString # None /\ optString[1] # ""

\* the catch block: status err?.status || 500, details the first truthy of
\* err.error.message, err.message, String(err)
CatchResponse(err) ==
    Respond(IF err.status # None /\ err.status[1] # 0 THEN err.status[1] ELSE 500,
            [ error   |-> "diagnose_failed",
              details |-> IF Truthy(err.errorMessage) THEN err.errorMessage[1]
                          ELSE IF Truthy(err.message) THEN err.message[1]
                          ELSE err.str ])

\* if (typeof out.compare_insights !== "string") out.compare_insights = "";
\* [threw, err] when the statement throws, [threw, val] otherwise
NormalizeInsights(v) ==
    IF v.k = "null" THEN [threw |-> TRUE, err |-> TypeErrorNull]
    ELSE IF v.k = "obj" THEN
        LET m == GetMember(v.members, KCompareInsights)
        IN  IF m # None /\ m[1].k = "str" THEN [threw |-> FALSE, val |-> v]
            ELSE [threw |-> FALSE,
                  val |-> JObj(SetMember(v.members, KCompareInsights, JStr(<<>>)))]
    ELSE IF v.k = "arr" THEN
        [threw |-> FALSE,
         val |-> [k |-> "arr", items |-> v.items,
                  props |-> <<[key |-> KCompareInsights, val |-> JStr(<<>>)]>>]]
    ELSE [threw |-> TRUE, err |-> TypeErrorPrimitive]

\* res.json(out): JSON.stringify writes the elements of an array and none
\* of its other properties
ToWire(v) == IF v.k = "arr" THEN JArr(v.items) ELSE v

\* the inner catch retrying the model call in place of responding
BadModelJsonRetry(req, text) == [req EXCEPT !.pc = "received"]

\* the inner catch: one bad_model_json response, and the handler returns
BadModelJson(req, text) ==
    [req EXCEPT !.pc = "done",
                !.responses = Append(@, Respond(502,
                    [ error   |-> "bad_model_json",
                      details |-> "Model did not return valid JSON.",
                      raw     |-> RawExcerpt(text) ]))]

\* lines 124-139: the handler from the resumption of the await on
AfterModelReturns(req, textOpt) ==
    LET text   == IF textOpt = None THEN <<>> ELSE textOpt[1]
        parsed == JSONParse(text)
    IN  IF ~parsed.ok THEN BadModelJson(req, text)
        ELSE LET n == NormalizeInsights(parsed.val)
             IN  [req EXCEPT !.pc = "done",
                             !.responses = Append(@, IF n.threw THEN CatchResponse(n.err)
                                                     ELSE Respond(200, ToWire(n.val)))]

NewRequest(body) ==
    [pc |-> "received", body |-> body, modelCalls |-> 0, reply |-> None, responses |-> <<>>]

\* lines 22-27 and 115: reject a request without input, or call the model
HandlerStart(r) ==
    /\ reqs[r].pc = "received"
    /\ reqs' = [reqs EXCEPT ![r] =
          IF MissingInput(@.body)
          THEN [@ EXCEPT !.pc = "done",
                         !.responses = Append(@, Respond(400,
                             [error |-> "Missing scenarioKey or runSummary"]))]
          ELSE [@ EXCEPT !.pc = "awaitModel", !.modelCalls = @ + 1]]
    /\ UNCHANGED <<selVars, out, modelReplies, uiVars>>

\* the await resumes with a response, whose text may be undefined
ModelReturns(r) ==
    /\ reqs[r].pc = "awaitModel"
    /\ \E reply \in modelReplies :
          /\ ~reply.threw
          /\ reqs' = [reqs EXCEPT ![r] =
                AfterModelReturns([@ EXCEPT !.reply = Some(reply)], reply.text)]
    /\ UNCHANGED <<selVars, out, modelReplies, uiVars>>

\* the await throws: lines 140-150
ModelThrows(r) ==
    /\ reqs[r].pc = "awaitModel"
    /\ \E reply \in modelReplies :
          /\ reply.threw
          /\ reqs' = [reqs EXCEPT ![r] =
                [@ EXCEPT !.pc = "done",
                          !.reply = Some(reply),
                          !.responses = Append(@, CatchResponse(reply.err))]]
    /\ UNCHANGED <<selVars, out, modelReplies, uiVars>>

\* request bodies: complete, without scenarioKey, with an empty scenarioKey,
\* without runSummary, empty
Body(key, runSummary, compareSummary) ==
    [scenarioKey |-> key, runSummary |-> runSummary, compareSummary |-> compareSummary]

RequestBodies ==
    { Body(Some("warehouse"), Some(buildRunSummary(RunA)), Some(buildRunSummary(RunB))),
      Body(None, Some(buildRunSummary(RunA)), None),
      Body(Some(""), Some(buildRunSummary(RunA)), None),
      Body(Some("sar"), None, None),
      Body(None, None, None) }

\* the outcome of await ai.models.generateContent: a response with its
\* text (<<>> when response.text is undefined), or a thrown error
ReturnsText(textOpt) == [threw |-> FALSE, text |-> textOpt]
Throws(err) == [threw |-> TRUE, err |-> err]

AllModelReplies ==
    {ReturnsText(None)} \cup {ReturnsText(Some(text)) : text \in ReplyTexts}
    \cup {Throws(err) : err \in ModelErrors}

HandlerInit ==
    /\ run = None /\ compareRun = None /\ scenarioKey = "warehouse" /\ out = None
    /\ UiMounted
    /\ diag = <<>>
    /\ modelReplies = AllModelReplies
    /\ reqs \in [1..MaxReqs -> {NewRequest(b) : b \in RequestBodies}]

HandlerNext ==
    \/ \E r \in DOMAIN reqs : HandlerStart(r)
    \/ \E r \in DOMAIN reqs : ModelReturns(r)
    \/ \E r \in DOMAIN reqs : ModelThrows(r)

SpecHandler == HandlerInit /\ [][HandlerNext]_vars


(***************************************************************************)
(* The App: run index, run loading, selections and diagnoseLLM.            *)
(*                                                                         *)
(* An effect runs with the state change that triggers it.  A fetch of a    *)
(* run file is [effect, file, dead]: dead is the flag its effect's cleanup *)
(* sets.  An invocation of diagnoseLLM is [pc, posts, abandoned]: pc is    *)
(* "idle", "awaiting" (suspended in await fetch) or "done"; posts counts   *)
(* its POSTs; abandoned records that, while it was awaiting, the user      *)
(* selected another run or scenario or clicked Diagnose again (the code    *)
(* keeps no such flag).  diagText carries the number of the invocation     *)
(* that wrote it.                                                          *)
(***************************************************************************)
\* /runs/index.json and the run files it names
IndexRuns ==
    << [id |-> "sample_run", file |-> "sample_run.json"],
       [id |-> "run_b", file |-> "run_b.json"] >>

RunFile(file) == IF file = "sample_run.json" THEN RunA ELSE RunB

IndexIds(idx) == {idx[1][i].id : i \in DOMAIN idx[1]}

\* index.runs.find((r) => r.id === id): <<>> when there is none
FindItem(idx, id) ==
    IF idx # None /\ \E i \in DOMAIN idx[1] : idx[1][i].id = id
    THEN Some(idx[1][CHOOSE i \in DOMAIN idx[1] : idx[1][i].id = id])
    ELSE None

\* a fetch started by a load effect, with the dead flag of its closure; once
\* it has completed it is kept with what its completion did: "applied" or
\* "failed" (it wrote state), "discarded" (dead was set, it wrote nothing)
Fetch(effect, file) == [effect |-> effect, file |-> file, dead |-> FALSE, state |-> "pending"]

Pending(fs) == {f \in fs : f.state = "pending"}

Completed(f, state) == [f EXCEPT !.state = IF f.dead THEN "discarded" ELSE state]

\* an effect whose cleanup leaves the dead flag as it is
CleanupKeepsAlive(fs, effect) == fs

\* the cleanup of an effect: dead = true for the fetch it started
Cleanup(fs, effect) == {IF f.effect = effect THEN [f EXCEPT !.dead = TRUE] ELSE f : f \in fs}

\* the load-selected-run effect for (index, runId): the fetches in flight after it
RunEffect(fs, idx, id) ==
    IF idx = None \/ Len(idx[1]) = 0 THEN Cleanup(fs, "run")
    ELSE LET item == IF FindItem(idx, id) # None THEN FindItem(idx, id)[1] ELSE idx[1][1]
         IN  Cleanup(fs, "run") \cup {Fetch("run", item.file)}

\* the load-compare-run effect for (index, compareRunId): it fetches when
\* the id is set and listed, and sets compareRun to null at once otherwise
CompareEffectFetches(idx, cid) == cid # "" /\ FindItem(idx, cid) # None

CompareEffect(fs, idx, cid) ==
    IF CompareEffectFetches(idx, cid)
    THEN Cleanup(fs, "compare") \cup {Fetch("compare", FindItem(idx, cid)[1].file)}
    ELSE Cleanup(fs, "compare")

IdleDiag == [pc |-> "idle", posts |-> 0, abandoned |-> FALSE]

NoRequest == [NewRequest(Body(None, None, None)) EXCEPT !.pc = "none"]

\* every invocation still awaiting its reply is abandoned
Abandon(d) == [r \in DOMAIN d |-> IF d[r].pc = "awaiting" THEN [d[r] EXCEPT !.abandoned = TRUE] ELSE d[r]]

\* the index fetch resolves: setIndex(data); both load effects run again
IndexResolves ==
    /\ index = None
    /\ index' = Some(IndexRuns)
    /\ fetches' = CompareEffect(RunEffect(fetches, index', runId), index', compareRunId)
    /\ compareRun' = IF CompareEffectFetches(index', compareRunId) THEN compareRun ELSE None
    /\ UNCHANGED <<run, scenarioKey, runId, compareRunId, t, playing, diagText, diag, selects,
                   out, reqs, modelReplies>>

\* the index fetch fails: setIndex({ runs: [] })
IndexRejects ==
    /\ index = None
    /\ index' = Some(<<>>)
    /\ fetches' = CompareEffect(RunEffect(fetches, index', runId), index', compareRunId)
    /\ compareRun' = IF CompareEffectFetches(index', compareRunId) THEN compareRun ELSE None
    /\ UNCHANGED <<run, scenarioKey, runId, compareRunId, t, playing, diagText, diag, selects,
                   out, reqs, modelReplies>>

\* click on a run card: setRunId(r.id)
SelectRun(id) ==
    /\ index # None
    /\ id \in IndexIds(index)
    /\ id # runId
    /\ selects < MaxSelects
    /\ runId' = id
    /\ fetches' = RunEffect(fetches, index, id)
    /\ diag' = Abandon(diag)
    /\ selects' = selects + 1
    /\ UNCHANGED <<selVars, index, compareRunId, t, playing, diagText, out, reqs, modelReplies>>

\* the compare select: setCompareRunId(value); the options are None and the
\* runs other than the selected one
SelectCompare(cid) ==
    /\ index # None
    /\ cid \in {""} \cup (IndexIds(index) \ {runId})
    /\ cid # compareRunId
    /\ selects < MaxSelects
    /\ compareRunId' = cid
    /\ fetches' = CompareEffect(fetches, index, cid)
    /\ compareRun' = IF CompareEffectFetches(index, cid) THEN compareRun ELSE None
    /\ selects' = selects + 1
    /\ UNCHANGED <<run, scenarioKey, index, runId, t, playing, diagText, diag, out, reqs,
                   modelReplies>>

\* the scenario select: setScenarioKey(value)
SelectScenario(key) ==
    /\ key \in ScenarioKeys
    /\ key # scenarioKey
    /\ selects < MaxSelects
    /\ scenarioKey' = key
    /\ diag' = Abandon(diag)
    /\ selects' = selects + 1
    /\ UNCHANGED <<run, compareRun, index, runId, compareRunId, t, playing, diagText, fetches,
                   out, reqs, modelReplies>>

\* a run file arrives: if (!dead) { setRun(data); setT(0); setPlaying(false) }
\* in the run effect, if (!dead) setCompareRun(data) in the compare effect
FetchResolves(f) ==
    /\ f \in Pending(fetches)
    /\ fetches' = (fetches \ {f}) \cup {Completed(f, "applied")}
    /\ IF f.dead THEN UNCHANGED <<run, compareRun, t, playing>>
       ELSE IF f.effect = "run"
       THEN run' = Some(RunFile(f.file)) /\ t' = 0 /\ playing' = FALSE /\ UNCHANGED compareRun
       ELSE compareRun' = Some(RunFile(f.file)) /\ UNCHANGED <<run, t, playing>>
    /\ UNCHANGED <<scenarioKey, index, runId, compareRunId, diagText, diag, selects, out, reqs,
                   modelReplies>>

\* the fetch of a run file fails: if (!dead) setRun(null) / setCompareRun(null)
FetchRejects(f) ==
    /\ f \in Pending(fetches)
    /\ fetches' = (fetches \ {f}) \cup {Completed(f, "failed")}
    /\ IF f.dead THEN UNCHANGED <<run, compareRun>>
       ELSE IF f.effect = "run"
       THEN run' = None /\ UNCHANGED compareRun
       ELSE compareRun' = None /\ UNCHANGED run
    /\ UNCHANGED <<scenarioKey, index, runId, compareRunId, t, playing, diagText, diag, selects,
                   out, reqs, modelReplies>>

\* click on Diagnose Run: diagnoseLLM up to its await fetch.  The POST
\* reaches the handler or is lost on the way.
DiagnoseLLM ==
    /\ run # None
    /\ \E r \in DOMAIN diag :
          /\ diag[r].pc = "idle"
          /\ \A q \in DOMAIN diag : q < r => diag[q].pc # "idle"
          /\ diagText' = [kind |-> "thinking", req |-> r]
          /\ diag' = [Abandon(diag) EXCEPT ![r] = [pc |-> "awaiting", posts |-> @.posts + 1,
                                                  abandoned |-> FALSE]]
          /\ \E delivered \in BOOLEAN :
                reqs' = [reqs EXCEPT ![r] =
                    [NewRequest(Body(Some(scenarioKey), Some(buildRunSummary(run[1])),
                                     IF compareRun = None THEN None
                                     ELSE Some(buildRunSummary(compareRun[1]))))
                     EXCEPT !.pc = IF delivered THEN "received" ELSE "lost"]]
    /\ UNCHANGED <<selVars, index, runId, compareRunId, t, playing, fetches, selects, out,
                   modelReplies>>

\* await fetch resumes with the handler's response: lines 460-489
DiagReplyArrives(r) ==
    /\ diag[r].pc = "awaiting"
    /\ reqs[r].pc = "done"
    /\ reqs[r].responses # <<>>
    /\ LET resp == reqs[r].responses[1]
       IN  diagText' = IF resp.status \in 200..299
                       THEN [kind |-> "diagnosis", req |-> r, data |-> resp.body]
                       ELSE [kind |-> "backend_error", req |-> r, error |-> resp.body.error]
    /\ diag' = [diag EXCEPT ![r].pc = "done"]
    /\ UNCHANGED <<selVars, index, runId, compareRunId, t, playing, fetches, selects, out, reqs,
                   modelReplies>>

\* await fetch throws: lines 490-492
DiagFetchRejects(r) ==
    /\ diag[r].pc = "awaiting"
    /\ reqs[r].pc = "lost"
    /\ diagText' = [kind |-> "request_failed", req |-> r]
    /\ diag' = [diag EXCEPT ![r].pc = "done"]
    /\ UNCHANGED <<selVars, index, runId, compareRunId, t, playing, fetches, selects, out, reqs,
                   modelReplies>>

\* replies of the model service in the App's runs: a complete diagnosis,
\* prose, a rate-limit error
AppModelReplies ==
    { ReturnsText(Some(TextFull)), ReturnsText(Some(<<"S", "o", "r", "r", "y">>)),
      Throws(Thrown(Some(429), None, Some("quota exceeded"), "ApiError: quota exceeded")) }

AppInit ==
    /\ run = None /\ compareRun = None /\ scenarioKey = "warehouse" /\ out = None
    /\ UiMounted
    /\ diag = [r \in 1..MaxDiag |-> IdleDiag]
    /\ reqs = [r \in 1..MaxDiag |-> NoRequest]
    /\ modelReplies = AppModelReplies

AppNext ==
    \/ IndexResolves
    \/ IndexRejects
    \/ \E id \in {"sample_run", "run_b"} : SelectRun(id)
    \/ \E cid \in {"", "sample_run", "run_b"} : SelectCompare(cid)
    \/ \E key \in ScenarioKeys : SelectScenario(key)
    \/ \E f \in fetches : FetchResolves(f)
    \/ \E f \in fetches : FetchRejects(f)
    \/ DiagnoseLLM
    \/ \E r \in DOMAIN diag : DiagReplyArrives(r)
    \/ \E r \in DOMAIN diag : DiagFetchRejects(r)
    \/ \E r \in DOMAIN reqs : HandlerStart(r)
    \/ \E r \in DOMAIN reqs : ModelReturns(r)
    \/ \E r \in DOMAIN reqs : ModelThrows(r)

SpecApp == AppInit /\ [][AppNext]_vars

(***************************************************************************)
(* Run loading, selection and playback: the App without the diagnosis.     *)
(***************************************************************************)
\* the Play button, disabled={!run}: setPlaying(true)
Play ==
    /\ run # None
    /\ ~playing
    /\ playing' = TRUE
    /\ UNCHANGED <<selVars, out, reqs, modelReplies, index, runId, compareRunId, t, diagText,
                   fetches, diag, selects>>

\* the Pause button, disabled={!playing}: setPlaying(false)
Pause ==
    /\ playing
    /\ playing' = FALSE
    /\ UNCHANGED <<selVars, out, reqs, modelReplies, index, runId, compareRunId, t, diagText,
                   fetches, diag, selects>>

\* one animation frame of the playback loop, dt * speed later
Tick(dt) ==
    /\ playing
    /\ LET maxT == runTimeMax(run)
           next == t + dt
       IN  IF next >= maxT THEN t' = maxT /\ playing' = FALSE
           ELSE t' = next /\ UNCHANGED playing
    /\ UNCHANGED <<selVars, out, reqs, modelReplies, index, runId, compareRunId, diagText,
                   fetches, diag, selects>>

\* the time slider: setT(clamp(v, 0, maxT))
Seek(v) ==
    /\ t' = IF v < 0 THEN 0 ELSE Min(v, runTimeMax(run))
    /\ t' # t
    /\ UNCHANGED <<selVars, out, reqs, modelReplies, index, runId, compareRunId, playing,
                   diagText, fetches, diag, selects>>

LoadInit ==
    /\ run = None /\ compareRun = None /\ scenarioKey = "warehouse" /\ out = None
    /\ UiMounted
    /\ diag = <<>>
    /\ reqs = <<>>
    /\ modelReplies = {}

LoadNext ==
    \/ IndexResolves
    \/ IndexRejects
    \/ \E id \in {"sample_run", "run_b"} : SelectRun(id)
    \/ \E cid \in {"", "sample_run", "run_b"} : SelectCompare(cid)
    \/ \E key \in ScenarioKeys : SelectScenario(key)
    \/ \E f \in fetches : FetchResolves(f)
    \/ \E f \in fetches : FetchRejects(f)
    \/ Play
    \/ Pause
    \/ \E dt \in {1, 2} : Tick(dt)
    \/ \E v \in {0, 3} : Seek(v)

SpecLoad == LoadInit /\ [][LoadNext]_vars

(***************************************************************************)
(* Model-backed diagnosis end to end: the App with its first run loaded    *)
(* (and possibly a compare run), clicks on Diagnose Run, the handler, the  *)
(* model service and the replies.                                          *)
(***************************************************************************)
InvokeModelReplies ==
    AppModelReplies \cup
    { ReturnsText(None), ReturnsText(Some(<<"n", "u", "l", "l">>)), ReturnsText(Some(TextCutOff)),
      Throws(Thrown(None, None, Some("fetch failed"), "TypeError: fetch failed")) }

InvokeInit ==
    /\ index = Some(IndexRuns)
    /\ runId = "sample_run"
    /\ run = Some(RunA)
    /\ \/ compareRunId = "" /\ compareRun = None
       \/ compareRunId = "run_b" /\ compareRun = Some(RunB)
    /\ scenarioKey \in ScenarioKeys
    /\ t = 0 /\ playing = FALSE /\ diagText = NoDiagText /\ fetches = {} /\ selects = 0
    /\ out = None
    /\ diag = [r \in 1..MaxDiag |-> IdleDiag]
    /\ reqs = [r \in 1..MaxDiag |-> NoRequest]
    /\ modelReplies = InvokeModelReplies

InvokeNext ==
    \/ DiagnoseLLM
    \/ \E r \in DOMAIN diag : DiagReplyArrives(r)
    \/ \E r \in DOMAIN diag : DiagFetchRejects(r)
    \/ \E r \in DOMAIN reqs : HandlerStart(r)
    \/ \E r \in DOMAIN reqs : ModelReturns(r)
    \/ \E r \in DOMAIN reqs : ModelThrows(r)

SpecInvoke == InvokeInit /\ [][InvokeNext]_vars


(***************************************************************************)
(* Properties of the evaluation engine.                                    *)
(***************************************************************************)
KnownTypes == {"near_collision", "collision", "stuck", "replan"}

NumOfType(events, ty) == Cardinality({i \in DOMAIN events : events[i].type = ty})

Evaluated == out # None

\* C1: a per-type count supplied by Stats is the count used by the score, and
\* the counts of the score equal the counts of the summary of the same run.
C1_StatsCountsAuthoritative ==
    Evaluated =>
        LET st == run[1].stats
            c  == out[1].primary[1].counts
            sm == out[1].runSummary.counts
        IN  /\ st.near_collision_count # None => c.near = st.near_collision_count[1]
            /\ st.collision_count # None => c.collision = st.collision_count[1]
            /\ st.stuck_count # None => c.stuck = st.stuck_count[1]
            /\ st.replan_count # None => c.replan = st.replan_count[1]
            /\ c.near = sm.near_collision
            /\ c.collision = sm.collision
            /\ c.stuck = sm.stuck
            /\ c.replan = sm.replan

\* C7: the score is the weighted sum of the numbers of events of the four
\* known types, it is >= 0, the verdict is PASS, WARN or FAIL, one more
\* event of any type never lowers the score, and one more event of an
\* unknown type leaves it as it is.
C7_ScoreWeightedSumMonotone ==
    Evaluated =>
        LET r == run[1]
            p == out[1].primary[1]
            w == Policy(scenarioKey).weights
        IN  /\ p.score = NumOfType(r.events, "near_collision") * w.near
                          + NumOfType(r.events, "collision") * w.collision
                          + NumOfType(r.events, "stuck") * w.stuck
                          + NumOfType(r.events, "replan") * w.replan
            /\ p.score >= 0
            /\ p.status \in {"PASS", "WARN", "FAIL"}
            /\ \A e \in EventUniverse :
                   LET more == scoreRun([r EXCEPT !.events = Append(@, e)], scenarioKey)
                   IN  /\ more.score >= p.score
                       /\ e.type \in KnownTypes => more.score > p.score
                       /\ e.type \notin KnownTypes => more.score = p.score

\* C7 witness: a scored run holding events of known and of unknown type
C7_Witness ==
    /\ Evaluated
    /\ out[1].primary[1].score > 0
    /\ \E i \in DOMAIN run[1].events : run[1].events[i].type = "goal_reached"
    /\ \E i \in DOMAIN run[1].events : run[1].events[i].type = "stuck"

\* C8: PASS exactly when score <= pass, WARN exactly when pass < score <=
\* warn, FAIL exactly when score > warn; under warehouse {near 2, stuck 1}
\* scores 12 and WARN, {collision 1} scores 8 and WARN; no events score 0
\* and PASS under every policy.
C8_VerdictBands ==
    Evaluated =>
        LET p  == out[1].primary[1]
            th == Policy(scenarioKey).thresholds
            zero == [near |-> 0, collision |-> 0, stuck |-> 0, replan |-> 0]
        IN  /\ (p.status = "PASS") <=> (p.score <= th.pass)
            /\ (p.status = "WARN") <=> (th.pass < p.score /\ p.score <= th.warn)
            /\ (p.status = "FAIL") <=> (p.score > th.warn)
            /\ scenarioKey = "warehouse" =>
                   /\ th.pass = 6 /\ th.warn = 14
                   /\ p.counts = [zero EXCEPT !.near = 2, !.stuck = 1]
                          => p.score = 12 /\ p.status = "WARN"
                   /\ p.counts = [zero EXCEPT !.collision = 1]
                          => p.score = 8 /\ p.status = "WARN"
                   /\ p.score = 6 => p.status = "PASS"
                   /\ p.score = 14 => p.status = "WARN"
            /\ run[1].events = <<>> => p.score = 0 /\ p.status = "PASS"

\* C8 witness: the worked example, near 2 and stuck 1 under warehouse
C8_Witness ==
    /\ Evaluated
    /\ scenarioKey = "warehouse"
    /\ out[1].primary[1].counts = [near |-> 2, collision |-> 0, stuck |-> 1, replan |-> 0]
    /\ out[1].primary[1].status = "WARN"

\* every band of every policy is met, boundaries included
C8_WitnessFailSar ==
    Evaluated /\ scenarioKey = "sar" /\ out[1].primary[1].status = "FAIL"

C8_WitnessBoundary ==
    Evaluated /\ scenarioKey = "delivery" /\ out[1].primary[1].score = 18

(***************************************************************************)
(* Properties of the comparison.                                           *)
(***************************************************************************)
Compared == Evaluated /\ out[1].deltas # None

\* the t of the last frame, 0 without frames or when it is not a number
LastFrameT(r) ==
    IF r.frames = <<>> THEN 0
    ELSE IF r.frames[Len(r.frames)].t = None THEN 0 ELSE r.frames[Len(r.frames)].t[1]

WeightedSum(r, key) ==
    LET w == Policy(key).weights
    IN  NumOfType(r.events, "near_collision") * w.near
        + NumOfType(r.events, "collision") * w.collision
        + NumOfType(r.events, "stuck") * w.stuck
        + NumOfType(r.events, "replan") * w.replan

\* C9 as claimed: a run compared with itself has every delta zero, the
\* distance delta included, also without a distance statistic; equal is
\* true and better is false.
C9_SelfCompareAllZero ==
    (Compared /\ compareRun = run) =>
        LET d == out[1].deltas[1]
        IN  /\ d.score = 0 /\ d.near = 0 /\ d.collision = 0 /\ d.stuck = 0
            /\ d.duration = 0
            /\ d.distance = Some(0)
            /\ d.equal /\ ~d.better

\* C9 as amended: a run compared with itself has a zero score, near,
\* collision, stuck and duration delta; its distance delta is zero when the
\* run has a distance statistic and null when it has none; equal is true
\* and better is false.
C9_SelfCompareZeroOrNull ==
    (Compared /\ compareRun = run) =>
        LET d == out[1].deltas[1]
        IN  /\ d.score = 0 /\ d.near = 0 /\ d.collision = 0 /\ d.stuck = 0
            /\ d.duration = 0
            /\ d.distance = (IF run[1].stats.distance_m = None THEN None ELSE Some(0))
            /\ d.equal /\ ~d.better

\* C9 witness: a run with incidents and no distance statistic compared with itself
C9_Witness ==
    /\ Compared
    /\ compareRun = run
    /\ run[1].stats.distance_m = None
    /\ out[1].primary[1].score > 0
    /\ out[1].deltas[1].distance = None

\* C10 as claimed: the deltas hold a difference for the score, for near,
\* collision, stuck and replan, and for the duration, each other - primary.
C10_DeltasEveryCount ==
    Compared =>
        LET d == out[1].deltas[1]
            a == run[1]
            b == compareRun[1]
        IN  /\ {"score", "near", "collision", "stuck", "replan", "duration"} \subseteq DOMAIN d
            /\ d.score = WeightedSum(b, scenarioKey) - WeightedSum(a, scenarioKey)
            /\ d.near = NumOfType(b.events, "near_collision") - NumOfType(a.events, "near_collision")
            /\ d.collision = NumOfType(b.events, "collision") - NumOfType(a.events, "collision")
            /\ d.stuck = NumOfType(b.events, "stuck") - NumOfType(a.events, "stuck")
            /\ d.replan = NumOfType(b.events, "replan") - NumOfType(a.events, "replan")
            /\ d.duration = LastFrameT(b) - LastFrameT(a)

\* C10 as amended: the deltas hold a difference for the score, for near,
\* collision and stuck (none for replan), and for the duration taken from
\* the last frame; each is other - primary; runs A then B give score -4,
\* near -2, stuck -1.
C10_DeltasOtherMinusPrimary ==
    Compared =>
        LET d == out[1].deltas[1]
            a == run[1]
            b == compareRun[1]
        IN  /\ DOMAIN d = {"score", "near", "collision", "stuck", "duration",
                            "distance", "better", "equal"}
            /\ d.score = WeightedSum(b, scenarioKey) - WeightedSum(a, scenarioKey)
            /\ d.near = NumOfType(b.events, "near_collision") - NumOfType(a.events, "near_collision")
            /\ d.collision = NumOfType(b.events, "collision") - NumOfType(a.events, "collision")
            /\ d.stuck = NumOfType(b.events, "stuck") - NumOfType(a.events, "stuck")
            /\ d.duration = LastFrameT(b) - LastFrameT(a)
            /\ (a = RunA /\ b = RunB /\ scenarioKey = "warehouse") =>
                   d.score = -4 /\ d.near = -2 /\ d.stuck = -1

\* C10 witness: the worked example, A compared with B under warehouse
C10_Witness ==
    /\ Compared
    /\ run = Some(RunA) /\ compareRun = Some(RunB) /\ scenarioKey = "warehouse"
    /\ out[1].deltas[1].score = -4

(***************************************************************************)
(* Properties of the summary.                                              *)
(***************************************************************************)
\* an event whose t is a finite number and whose type is not empty
IsValidEvent(e) == e.t # None /\ e.type # ""

\* the valid events of a list, in input order, with their numeric t
ValidOf(events) ==
    LET kept == SelectSeq(events, IsValidEvent)
    IN  [i \in 1..Len(kept) |-> [t |-> kept[i].t[1], type |-> kept[i].type]]

\* the place of v[i] once v is ordered by t, equal t in input order
Rank(v, i) ==
    1 + Cardinality({j \in 1..Len(v) : v[j].t < v[i].t \/ (v[j].t = v[i].t /\ j < i)})

StableSorted(v) == [k \in 1..Len(v) |-> v[CHOOSE i \in 1..Len(v) : Rank(v, i) = k]]

\* C13: the evidence of a summary is the list of the run's valid events in
\* ascending time, equal times in input order, when there are at most 24;
\* otherwise it has exactly 24 entries, the 12 earliest then the 12 latest
\* of that list.  It is non-decreasing in t, and repeated events are kept.
C13_EvidenceHeadTail ==
    Evaluated =>
        LET v == ValidOf(run[1].events)
            n == Len(v)
            sorted == StableSorted(v)
            e == out[1].runSummary.events_evidence
        IN  /\ n <= 24 => e = sorted
            /\ n > 24 =>
                  /\ Len(e) = 24
                  /\ \A k \in 1..12 : e[k] = sorted[k] /\ e[12 + k] = sorted[n - 12 + k]
            /\ \A k \in 1..(Len(e) - 1) : e[k].t <= e[k + 1].t

\* C13 witness: a run of more than 24 valid events with repeated times,
\* summarized to 24 entries whose first two share a time
C13_Witness ==
    /\ Evaluated
    /\ Len(ValidOf(run[1].events)) > 24
    /\ Len(out[1].runSummary.events_evidence) = 24
    /\ out[1].runSummary.events_evidence[1].t = out[1].runSummary.events_evidence[2].t
    /\ out[1].runSummary.events_evidence[1].type # out[1].runSummary.events_evidence[2].type

\* exactly 24 valid events out of 26, not in time order: kept whole
C13_WitnessAtLimit ==
    /\ Evaluated
    /\ Len(run[1].events) = 26
    /\ Len(ValidOf(run[1].events)) = 24
    /\ Len(out[1].runSummary.events_evidence) = 24
    /\ run[1].events[2].t[1] > run[1].events[3].t[1]

\* C14: the events whose t is not a finite number or whose type is empty
\* influence no output: the evidence holds valid events only, and the
\* counts of the summary, the counts of the score, the score and the
\* verdict are those of the run without its invalid events.
C14_InvalidEventsDropped ==
    Evaluated =>
        LET r == run[1]
            kept == SelectSeq(r.events, IsValidEvent)
            cleaned == [r EXCEPT !.events = kept]
            p == out[1].primary[1]
            sm == out[1].runSummary
        IN  /\ \A k \in DOMAIN sm.events_evidence :
                   \E i \in DOMAIN kept :
                       sm.events_evidence[k] = [t |-> kept[i].t[1], type |-> kept[i].type]
            /\ sm.events_evidence = buildRunSummary(cleaned).events_evidence
            /\ sm.counts = buildRunSummary(cleaned).counts
            /\ p.counts = [ near      |-> NumOfType(kept, "near_collision"),
                            collision |-> NumOfType(kept, "collision"),
                            stuck     |-> NumOfType(kept, "stuck"),
                            replan    |-> NumOfType(kept, "replan") ]
            /\ p.score = WeightedSum(cleaned, scenarioKey)
            /\ p.status = scoreRun(cleaned, scenarioKey).status

\* C15: the duration of a summary is Stats.duration_s when Stats has it and
\* the last frame's t otherwise (0 without frames), and the duration delta
\* of a comparison is the compared summary's duration minus the primary
\* summary's duration.
C15_DurationEverywhere ==
    Evaluated =>
        /\ out[1].runSummary.duration_s =
               (IF run[1].stats.duration_s # None THEN run[1].stats.duration_s[1]
                ELSE LastFrameT(run[1]))
        /\ Compared =>
               out[1].deltas[1].duration =
                   out[1].compareSummary[1].duration_s - out[1].runSummary.duration_s

\* C12: the distance delta is null whenever the primary or the compared run
\* has no distance statistic, and it is the compared run's distance minus
\* the primary's exactly when both have one (a distance of 0 is one).
C12_DistanceDeltaNullOrDifference ==
    Compared =>
        LET d == out[1].deltas[1].distance
            a == run[1].stats.distance_m
            b == compareRun[1].stats.distance_m
        IN  /\ (a = None \/ b = None) => d = None
            /\ (a # None /\ b # None) => d = Some(b[1] - a[1])
            /\ d # None <=> (a # None /\ b # None)

\* C12 witness: the primary run has a distance, the compared run has none
C12_Witness ==
    /\ Compared
    /\ run[1].stats.distance_m = Some(5)
    /\ compareRun[1].stats.distance_m = None
    /\ out[1].deltas[1].distance = None

\* both runs have a distance, one of them 0
C12_WitnessBoth ==
    /\ Compared
    /\ run[1].stats.distance_m = Some(9)
    /\ compareRun[1].stats.distance_m = Some(0)
    /\ out[1].deltas[1].distance = Some(-9)

\* C11: whatever runs and scenario have been selected, a comparison exists
\* exactly when both runs are loaded, both of its scores are the weighted
\* sums under the scenario selected now, better is true exactly when the
\* compared run's score is strictly lower than the primary's, equal exactly
\* when the scores are the same, and better and equal are never both true.
C11_BetterEqualSamePolicy ==
    /\ deltas # None <=> (run # None /\ compareRun # None)
    /\ deltas # None =>
          LET d  == deltas[1]
              sp == WeightedSum(run[1], scenarioKey)
              sc == WeightedSum(compareRun[1], scenarioKey)
          IN  /\ primary[1].score = sp
              /\ compare[1].score = sc
              /\ d.score = sc - sp
              /\ d.better <=> sc < sp
              /\ d.equal <=> sc = sp
              /\ ~(d.better /\ d.equal)

\* C11 witness: after a scenario selection and a compare-run selection the
\* compared run is better under a policy other than the default
C11_Witness ==
    /\ selects >= 2
    /\ scenarioKey # "warehouse"
    /\ deltas # None
    /\ deltas[1].better /\ ~deltas[1].equal

\* the other two outcomes of a comparison after selections
C11_WitnessEqual == selects >= 2 /\ deltas # None /\ deltas[1].equal

C11_WitnessWorse ==
    selects >= 2 /\ deltas # None /\ ~deltas[1].equal /\ ~deltas[1].better

(***************************************************************************)
(* Properties of the /api/diagnose handler.                                *)
(***************************************************************************)
IsPrefix(p, text) == Len(p) <= Len(text) /\ p = SubSeq(text, 1, Len(p))

\* the model call of request r returned (with this text, "" when undefined)
Returned(r) == reqs[r].reply # None /\ ~reqs[r].reply[1].threw
ReplyText(r) == IF reqs[r].reply[1].text = None THEN <<>> ELSE reqs[r].reply[1].text[1]

\* the model call of request r threw
Threw(r) == reqs[r].reply # None /\ reqs[r].reply[1].threw

\* texts that are not JSON: empty, prose, cut off, closed and followed by junk
NotJsonTexts ==
    {<<>>, <<"S", "o", "r", "r", "y">>, TextUnclosed, TextCutOff, TextTrailingJunk,
     Pad(RawLimit, "x"), Pad(RawLimit + 1, "x")}

\* C2: a reply text that does not parse as JSON (the empty text included)
\* is answered with bad_model_json, whose raw is the prefix of the text of
\* length min(2000, length of the text), and with no success body.
C2_BadModelJson ==
    \A r \in DOMAIN reqs :
        (Returned(r) /\ (~JSONParse(ReplyText(r)).ok \/ ReplyText(r) \in NotJsonTexts)) =>
            /\ Len(reqs[r].responses) = 1
            /\ reqs[r].responses[1].status # 200
            /\ reqs[r].responses[1].body.error = "bad_model_json"
            /\ IsPrefix(reqs[r].responses[1].body.raw, ReplyText(r))
            /\ Len(reqs[r].responses[1].body.raw) = Min(RawLimit, Len(ReplyText(r)))

\* C2 witness: a reply longer than 2000 characters that is not JSON, answered
\* with bad_model_json and a raw of exactly 2000 characters
C2_Witness ==
    \E r \in DOMAIN reqs :
        /\ Returned(r)
        /\ Len(ReplyText(r)) > RawLimit
        /\ Len(reqs[r].responses) = 1
        /\ reqs[r].responses[1].status = 502
        /\ reqs[r].responses[1].body.error = "bad_model_json"
        /\ Len(reqs[r].responses[1].body.raw) = RawLimit

\* the compare_insights string of a parsed reply: its own when it is an
\* object with a string there, the empty string otherwise
ExpectedInsights(v) ==
    IF v.k = "obj" /\ GetMember(v.members, KCompareInsights) # None
       /\ GetMember(v.members, KCompareInsights)[1].k = "str"
    THEN GetMember(v.members, KCompareInsights)[1]
    ELSE JStr(<<>>)

\* C3: every reply that parses as JSON is answered with a success body
\* whose compare_insights is a string (the reply's own, or "" when missing
\* or not a string), never with an error.
C3_ParsedReplyNormalized ==
    \A r \in DOMAIN reqs :
        (Returned(r) /\ JSONParse(ReplyText(r)).ok) =>
            /\ Len(reqs[r].responses) = 1
            /\ reqs[r].responses[1].status = 200
            /\ reqs[r].responses[1].body.k = "obj"
            /\ GetMember(reqs[r].responses[1].body.members, KCompareInsights)
                   = Some(ExpectedInsights(JSONParse(ReplyText(r)).val))

\* C4: a failed model call is answered with diagnose_failed, with the
\* status of the error (500 without one) and its message; and
\* diagnose_failed answers only a failed model call, never a reply that was
\* received and parsed.
C4_DiagnoseFailedOnlyTransport ==
    \A r \in DOMAIN reqs :
        /\ Threw(r) =>
              LET err == reqs[r].reply[1].err
              IN  /\ Len(reqs[r].responses) = 1
                  /\ reqs[r].responses[1].body.error = "diagnose_failed"
                  /\ reqs[r].responses[1].status = (IF err.status = None THEN 500 ELSE err.status[1])
                  /\ reqs[r].responses[1].body.details \in
                         {err.str} \cup {m[1] : m \in {err.errorMessage, err.message} \ {None}}
        /\ \A i \in DOMAIN reqs[r].responses :
              reqs[r].responses[i].body.error = "diagnose_failed" => Threw(r)

(***************************************************************************)
(* Properties of the model-backed diagnosis, end to end.                   *)
(***************************************************************************)
Outcome(resp) ==
    IF resp.status = 200 THEN "success"
    ELSE IF resp.status = 400 THEN "missing_input"
    ELSE resp.body.error

\* C5: an invocation POSTs at most once, its handler calls the model at
\* most once and sends at most one response; once the model call has
\* returned or thrown, the handler is done with exactly one response, which
\* is a success body, bad_model_json, diagnose_failed or the 400
\* rejection, and no further model call or POST follows.
C5_OneRequestOneOutcome ==
    \A r \in DOMAIN diag :
        /\ diag[r].posts <= 1
        /\ reqs[r].modelCalls <= 1
        /\ Len(reqs[r].responses) <= 1
        /\ reqs[r].reply # None => reqs[r].pc = "done" /\ reqs[r].modelCalls = 1
        /\ reqs[r].pc = "done" =>
              /\ Len(reqs[r].responses) = 1
              /\ Outcome(reqs[r].responses[1]) \in
                     {"success", "bad_model_json", "diagnose_failed", "missing_input"}
        /\ diag[r].pc = "done" => diag[r].posts = 1 /\ reqs[r].pc \in {"done", "lost"}

\* C5 witness: an invocation whose reply did not parse, reported to the
\* caller once, after one POST and one model call
C5_Witness ==
    \E r \in DOMAIN diag :
        /\ diag[r].pc = "done"
        /\ diag[r].posts = 1
        /\ reqs[r].modelCalls = 1
        /\ Len(reqs[r].responses) = 1
        /\ reqs[r].responses[1].status = 502
        /\ reqs[r].responses[1].body.error = "bad_model_json"
        /\ diagText = [kind |-> "backend_error", req |-> r, error |-> "bad_model_json"]

\* C6: the reply or failure of an abandoned invocation (the user selected
\* another run or scenario, or clicked Diagnose again, while it was
\* awaiting) changes no state: diagText stays as it is.
C6_AbandonedReplyDiscarded ==
    [][\A r \in DOMAIN diag :
          (diag[r].pc = "awaiting" /\ diag[r].abandoned /\ diag'[r].pc = "done")
              => diagText' = diagText]_vars

(***************************************************************************)
(* Properties of run loading.                                              *)
(***************************************************************************)
\* the run file that the index names for a run id
SelectedFile(id) ==
    CHOOSE file \in {"sample_run.json", "run_b.json"} :
        \E i \in DOMAIN IndexRuns : IndexRuns[i].id = id /\ IndexRuns[i].file = file

\* the fetch f completes or fails in this step: it leaves the fetches in
\* flight while nothing is selected and the index stays as it is
Settles(f) ==
    /\ f \in Pending(fetches)
    /\ f \notin Pending(fetches')
    /\ selects' = selects
    /\ index' = index

\* every fetch in flight that may still write state is the fetch of the
\* current selection, and once none is in flight the loaded run and compare
\* run, if any, are those of the current selection
LoadedIsSelected ==
    /\ \A f \in Pending(fetches) :
          ~f.dead => /\ f.effect = "run" => f.file = SelectedFile(runId)
                     /\ f.effect = "compare" =>
                            compareRunId # "" /\ f.file = SelectedFile(compareRunId)
    /\ (run # None /\ ~\E f \in Pending(fetches) : f.effect = "run" /\ ~f.dead)
          => run = Some(RunFile(SelectedFile(runId)))
    /\ (compareRun # None /\ ~\E f \in Pending(fetches) : f.effect = "compare" /\ ~f.dead)
          => compareRunId # "" /\ compareRun = Some(RunFile(SelectedFile(compareRunId)))

\* C16: a fetch superseded by a later selection is dead, and when it
\* completes or fails it writes none of run, compareRun, t and playing; a
\* fetch that writes is the fetch of the current selection; a loaded
\* primary run comes with t = 0 and playing = false; and under every
\* interleaving the loaded runs are those of the most recent selection.
C16_SupersededFetchesDiscarded ==
    [][ /\ \A f \in Pending(fetches) :
             Settles(f) =>
                 IF f.dead THEN UNCHANGED <<run, compareRun, t, playing>>
                 ELSE IF f.effect = "run"
                 THEN /\ f.file = SelectedFile(runId)
                      /\ \/ run' = Some(RunFile(f.file)) /\ t' = 0 /\ playing' = FALSE
                         \/ run' = None /\ UNCHANGED <<t, playing>>
                      /\ UNCHANGED compareRun
                 ELSE /\ f.file = SelectedFile(compareRunId)
                      /\ compareRun' \in {None, Some(RunFile(f.file))}
                      /\ UNCHANGED <<run, t, playing>>
        /\ run' # run /\ run' # None => t' = 0 /\ playing' = FALSE
        /\ LoadedIsSelected' ]_vars

\* C16 witness: the fetch of sample_run, superseded by the selection of
\* run_b, has completed and was discarded; run_b is loaded, at t = 0 and
\* not playing, and nothing is in flight
C16_Witness ==
    /\ runId = "run_b"
    /\ run = Some(RunB)
    /\ t = 0 /\ ~playing
    /\ Pending(fetches) = {}
    /\ \E f \in fetches :
          f.effect = "run" /\ f.file = "sample_run.json" /\ f.state = "discarded"
    /\ \E f \in fetches :
          f.effect = "run" /\ f.file = "run_b.json" /\ f.state = "applied"

\* a superseded compare fetch was discarded after the compare run was
\* deselected
C16_WitnessCompare ==
    /\ compareRunId = ""
    /\ compareRun = None
    /\ \E f \in fetches : f.effect = "compare" /\ f.state = "discarded"

====
